---------------------------- MODULE Spec2Model ----------------------------
(***************************************************************************)
(* AutoSwitchLEDMode (examples/Devices/Keyboardio/Model100): a plugin that *)
(* switches between the stalker and the colormap LED effect from the kind  *)
(* of key pressed and a polled idle timeout.                               *)
(*                                                                         *)
(* The plugin's two hooks are called from the host's main loop: one cycle  *)
(* reads the millisecond clock, delivers the key events of the scan to     *)
(* onKeyEvent, and ends with afterEachCycle.                               *)
(***************************************************************************)
EXTENDS Integers, Sequences, FiniteSets, TLC

(* ------------------------------ bounds -------------------------------- *)

\* number of main-loop cycles explored
MaxCycles == 5

(* ------------------------- program constants -------------------------- *)

\* const uint16_t timeout = 2000;
timeout == 2000

\* width of uint16_t start_time_
TimestampBits == 16

TimestampModulus == 2 ^ TimestampBits

\* conversion of the 32-bit millisecond counter to uint16_t
ToUint16(t) == t % TimestampModulus

(* ------------------------------ inputs -------------------------------- *)

\* key switch states carried by a KeyEvent
KeyStates == {"toggledOn", "held", "toggledOff", "idle"}

\* one ordinary key and one layer-shift key
Keys == {"Key_A", "ShiftToLayer_1"}

KeyEvents == [state : KeyStates, key : Keys]

\* durations of one main-loop cycle, in ms: a short cycle, the two sides of
\* the timeout, and a long quiet stretch that brings the 16-bit timestamp
\* arithmetic to its wrap-around
CycleLengths == {1, timeout - 1, timeout, TimestampModulus - timeout}

\* values the never-initialised start_time_ may hold after construction
UninitialisedTimestamps == {0, timeout, TimestampModulus - 1}

NoEvent == -1

(* --------------------------- host services ---------------------------- *)

keyToggledOn(state) == state = "toggledOn"

isLayerKey(key) == key = "ShiftToLayer_1"

\* Runtime.hasTimeExpired(start_time, ttl), evaluated at clock value t with
\* the arithmetic of the timestamp's type
hasTimeExpired(t, start_time, ttl) ==
  ((ToUint16(t) - start_time) % TimestampModulus) >= ttl

(* ------------------------------- state -------------------------------- *)

VARIABLES
  millis_at_cycle_start,  \* Runtime.millisAtCycleStart()
  start_time_,            \* uint16_t start_time_
  timer_running_,         \* bool timer_running_
  phase,                  \* position of the main loop: "scan" or "done"
  cycles,                 \* cycles started so far
  activated,              \* effects activated by the last hook call, in order
  last,                   \* the last hook call and the state it started from
  event_millis,           \* clock value at the last key event (NoEvent if none)
  keyDownSeen,            \* a non-layer key has toggled on at some point
  lastEffect,             \* most recently activated effect ("none" if none)
  result,                 \* EventHandlerResult returned by the last hook call
  stalkerPending          \* stalker was activated and no tick has since
                          \* cleared the timer and activated colormap

vars == <<millis_at_cycle_start, start_time_, timer_running_, phase, cycles,
          activated, last, event_millis, keyDownSeen, lastEffect, result,
          stalkerPending>>

Effects == {"colormap", "stalker"}

\* values of EventHandlerResult
EventHandlerResults == {"OK", "EVENT_CONSUMED", "ABORT", "ERROR"}

Call(name, state, key) ==
  [name |-> name, state |-> state, key |-> key,
   wasRunning |-> timer_running_, oldStart |-> start_time_,
   keyDownBefore |-> keyDownSeen]

LastOf(seq, default) == IF seq = <<>> THEN default ELSE seq[Len(seq)]

Init ==
  /\ millis_at_cycle_start = 0
  /\ start_time_ \in UninitialisedTimestamps
  /\ timer_running_ = FALSE
  /\ phase = "done"
  /\ cycles = 0
  /\ activated = <<>>
  /\ last = [name |-> "init", state |-> "none", key |-> "none",
             wasRunning |-> FALSE, oldStart |-> start_time_,
             keyDownBefore |-> FALSE]
  /\ event_millis = NoEvent
  /\ keyDownSeen = FALSE
  /\ lastEffect = "none"
  /\ result = "none"
  /\ stalkerPending = FALSE

(* ------------------------------ actions ------------------------------- *)

\* the main loop starts a cycle and latches the clock
beginCycle(d) ==
  /\ phase = "done"
  /\ cycles < MaxCycles
  /\ millis_at_cycle_start' = millis_at_cycle_start + d
  /\ phase' = "scan"
  /\ cycles' = cycles + 1
  /\ UNCHANGED <<start_time_, timer_running_, activated, last, event_millis,
                 keyDownSeen, lastEffect, result, stalkerPending>>

\* variant: the layer-key test of the first condition inverted
colormapOnKey_plainKey(running, event) ==
  running /\ keyToggledOn(event.state) /\ ~isLayerKey(event.key)

\* variant: the first condition reduced to the key-down test
colormapOnKey_anyKeyDown(running, event) ==
  keyToggledOn(event.state)

\* variant: the first condition without the timer test
colormapOnKey_noTimerTest(running, event) ==
  keyToggledOn(event.state) /\ isLayerKey(event.key)

\* first condition of onKeyEvent
colormapOnKey(running, event) ==
  running /\ keyToggledOn(event.state) /\ isLayerKey(event.key)

\* variant: the layer-key test of the second condition inverted
stalkerOnKey_layerKey(running, event) ==
  ~running /\ keyToggledOn(event.state) /\ isLayerKey(event.key)

\* variant: the second condition without the layer-key test
stalkerOnKey_anyKey(running, event) ==
  ~running /\ keyToggledOn(event.state)

\* variant: the second condition without the timer test
stalkerOnKey_noTimerTest(running, event) ==
  keyToggledOn(event.state) /\ ~isLayerKey(event.key)

\* second condition of onKeyEvent
stalkerOnKey(running, event) ==
  ~running /\ keyToggledOn(event.state) /\ ~isLayerKey(event.key)

\* variant: the timestamp recorded only for key-down transitions
onKeyEvent_stampOnKeyDown(event) ==
  LET first  == colormapOnKey(timer_running_, event)
      second == stalkerOnKey(timer_running_, event)
      acts   == (IF first THEN <<"colormap">> ELSE <<>>)
                  \o (IF second THEN <<"stalker">> ELSE <<>>)
  IN  /\ phase = "scan"
      /\ start_time_' = IF keyToggledOn(event.state)
                          THEN ToUint16(millis_at_cycle_start)
                          ELSE start_time_
      /\ timer_running_' = IF second THEN TRUE ELSE timer_running_
      /\ activated' = acts
      /\ lastEffect' = LastOf(acts, lastEffect)
      /\ last' = Call("onKeyEvent", event.state, event.key)
      /\ result' = "OK"
      /\ stalkerPending' = IF acts = <<>> \/ LastOf(acts, "none") # "stalker"
                              THEN stalkerPending
                              ELSE TRUE
      /\ event_millis' = millis_at_cycle_start
      /\ keyDownSeen' = (keyDownSeen \/
                          (keyToggledOn(event.state) /\ ~isLayerKey(event.key)))
      /\ UNCHANGED <<millis_at_cycle_start, phase, cycles>>

\* variant: the event reported as consumed when an effect was activated
onKeyEvent_consumes(event) ==
  LET first  == colormapOnKey(timer_running_, event)
      second == stalkerOnKey(timer_running_, event)
      acts   == (IF first THEN <<"colormap">> ELSE <<>>)
                  \o (IF second THEN <<"stalker">> ELSE <<>>)
  IN  /\ phase = "scan"
      /\ start_time_' = ToUint16(millis_at_cycle_start)
      /\ timer_running_' = IF second THEN TRUE ELSE timer_running_
      /\ activated' = acts
      /\ lastEffect' = LastOf(acts, lastEffect)
      /\ last' = Call("onKeyEvent", event.state, event.key)
      /\ result' = IF acts = <<>> THEN "OK" ELSE "EVENT_CONSUMED"
      /\ stalkerPending' = IF acts = <<>> \/ LastOf(acts, "none") # "stalker"
                              THEN stalkerPending
                              ELSE TRUE
      /\ event_millis' = millis_at_cycle_start
      /\ keyDownSeen' = (keyDownSeen \/
                          (keyToggledOn(event.state) /\ ~isLayerKey(event.key)))
      /\ UNCHANGED <<millis_at_cycle_start, phase, cycles>>

onKeyEvent(event) ==
  LET first  == colormapOnKey(timer_running_, event)
      second == stalkerOnKey(timer_running_, event)
      acts   == (IF first THEN <<"colormap">> ELSE <<>>)
                  \o (IF second THEN <<"stalker">> ELSE <<>>)
  IN  /\ phase = "scan"
      /\ start_time_' = ToUint16(millis_at_cycle_start)
      /\ timer_running_' = IF second THEN TRUE ELSE timer_running_
      /\ activated' = acts
      /\ lastEffect' = LastOf(acts, lastEffect)
      /\ last' = Call("onKeyEvent", event.state, event.key)
      /\ result' = "OK"
      /\ stalkerPending' = IF acts = <<>> \/ LastOf(acts, "none") # "stalker"
                              THEN stalkerPending
                              ELSE TRUE
      /\ event_millis' = millis_at_cycle_start
      /\ keyDownSeen' = (keyDownSeen \/
                          (keyToggledOn(event.state) /\ ~isLayerKey(event.key)))
      /\ UNCHANGED <<millis_at_cycle_start, phase, cycles>>

handleKeyEvent == \E event \in KeyEvents : onKeyEvent(event)

\* variant: the timeout taken one millisecond too long
afterEachCycle_late ==
  LET expired == hasTimeExpired(millis_at_cycle_start, start_time_, timeout + 1)
      acts    == IF expired THEN <<"colormap">> ELSE <<>>
  IN  /\ phase = "scan"
      /\ timer_running_' = IF expired THEN FALSE ELSE timer_running_
      /\ activated' = acts
      /\ lastEffect' = LastOf(acts, lastEffect)
      /\ last' = Call("afterEachCycle", "none", "none")
      /\ result' = "OK"
      /\ stalkerPending' = IF timer_running_ /\ ~timer_running_'
                                 /\ acts = <<"colormap">>
                              THEN FALSE
                              ELSE stalkerPending
      /\ phase' = "done"
      /\ UNCHANGED <<millis_at_cycle_start, start_time_, cycles, event_millis,
                     keyDownSeen>>

\* variant: the timeout taken one millisecond too short
afterEachCycle_early ==
  LET expired == hasTimeExpired(millis_at_cycle_start, start_time_, timeout - 1)
      acts    == IF expired THEN <<"colormap">> ELSE <<>>
  IN  /\ phase = "scan"
      /\ timer_running_' = IF expired THEN FALSE ELSE timer_running_
      /\ activated' = acts
      /\ lastEffect' = LastOf(acts, lastEffect)
      /\ last' = Call("afterEachCycle", "none", "none")
      /\ result' = "OK"
      /\ stalkerPending' = IF timer_running_ /\ ~timer_running_'
                                 /\ acts = <<"colormap">>
                              THEN FALSE
                              ELSE stalkerPending
      /\ phase' = "done"
      /\ UNCHANGED <<millis_at_cycle_start, start_time_, cycles, event_millis,
                     keyDownSeen>>

\* variant: the timer flag left alone on expiry
afterEachCycle_neverStops ==
  LET expired == hasTimeExpired(millis_at_cycle_start, start_time_, timeout)
      acts    == IF expired THEN <<"colormap">> ELSE <<>>
  IN  /\ phase = "scan"
      /\ timer_running_' = timer_running_
      /\ activated' = acts
      /\ lastEffect' = LastOf(acts, lastEffect)
      /\ last' = Call("afterEachCycle", "none", "none")
      /\ result' = "OK"
      /\ stalkerPending' = IF timer_running_ /\ ~timer_running_'
                                 /\ acts = <<"colormap">>
                              THEN FALSE
                              ELSE stalkerPending
      /\ phase' = "done"
      /\ UNCHANGED <<millis_at_cycle_start, start_time_, cycles, event_millis,
                     keyDownSeen>>

\* variant: the timer flag cleared outside the expiry test
afterEachCycle_alwaysStops ==
  LET expired == hasTimeExpired(millis_at_cycle_start, start_time_, timeout)
      acts    == IF expired THEN <<"colormap">> ELSE <<>>
  IN  /\ phase = "scan"
      /\ timer_running_' = FALSE
      /\ activated' = acts
      /\ lastEffect' = LastOf(acts, lastEffect)
      /\ last' = Call("afterEachCycle", "none", "none")
      /\ result' = "OK"
      /\ stalkerPending' = IF timer_running_ /\ ~timer_running_'
                                 /\ acts = <<"colormap">>
                              THEN FALSE
                              ELSE stalkerPending
      /\ phase' = "done"
      /\ UNCHANGED <<millis_at_cycle_start, start_time_, cycles, event_millis,
                     keyDownSeen>>

\* variant: the timer stopped on expiry without activating colormap
afterEachCycle_silentStop ==
  LET expired == hasTimeExpired(millis_at_cycle_start, start_time_, timeout)
      acts    == <<>>
  IN  /\ phase = "scan"
      /\ timer_running_' = IF expired THEN FALSE ELSE timer_running_
      /\ activated' = acts
      /\ lastEffect' = LastOf(acts, lastEffect)
      /\ last' = Call("afterEachCycle", "none", "none")
      /\ result' = "OK"
      /\ stalkerPending' = IF timer_running_ /\ ~timer_running_'
                                 /\ acts = <<"colormap">>
                              THEN FALSE
                              ELSE stalkerPending
      /\ phase' = "done"
      /\ UNCHANGED <<millis_at_cycle_start, start_time_, cycles, event_millis,
                     keyDownSeen>>

afterEachCycle ==
  LET expired == hasTimeExpired(millis_at_cycle_start, start_time_, timeout)
      acts    == IF expired THEN <<"colormap">> ELSE <<>>
  IN  /\ phase = "scan"
      /\ timer_running_' = IF expired THEN FALSE ELSE timer_running_
      /\ activated' = acts
      /\ lastEffect' = LastOf(acts, lastEffect)
      /\ last' = Call("afterEachCycle", "none", "none")
      /\ result' = "OK"
      /\ stalkerPending' = IF timer_running_ /\ ~timer_running_'
                                 /\ acts = <<"colormap">>
                              THEN FALSE
                              ELSE stalkerPending
      /\ phase' = "done"
      /\ UNCHANGED <<millis_at_cycle_start, start_time_, cycles, event_millis,
                     keyDownSeen>>

loop == \E d \in CycleLengths : beginCycle(d)

Next == loop \/ handleKeyEvent \/ afterEachCycle

Spec == Init /\ [][Next]_vars

(* ------------------------ unbounded operation ------------------------- *)

\* a cycle length below the timeout whose multiples divide the range of the
\* 16-bit timestamp
LiveQuantum == TimestampModulus \div 64

\* cycle lengths of the unbounded run, every one shorter than 2^16 ms
LiveCycleLengths ==
  {LiveQuantum, 2 * LiveQuantum,
   TimestampModulus - 2 * LiveQuantum, TimestampModulus - LiveQuantum}

\* the main loop starts a cycle; the clock is kept to the 16 bits that
\* onKeyEvent and hasTimeExpired read, and the cycles are not counted
liveBeginCycle(d) ==
  /\ phase = "done"
  /\ millis_at_cycle_start' = ToUint16(millis_at_cycle_start + d)
  /\ phase' = "scan"
  /\ UNCHANGED <<start_time_, timer_running_, cycles, activated, last,
                 event_millis, keyDownSeen, lastEffect, result, stalkerPending>>

liveLoop == \E d \in LiveCycleLengths : liveBeginCycle(d)

LiveNext == liveLoop \/ handleKeyEvent \/ afterEachCycle

\* the main loop runs forever: it keeps starting cycles and ends each with
\* afterEachCycle; key events may stop arriving
LiveSpec ==
  /\ Init
  /\ [][LiveNext]_vars
  /\ WF_vars(liveLoop)
  /\ WF_vars(afterEachCycle)

(* --------------------------- step predicates --------------------------- *)

\* the step is a call of afterEachCycle
TickStep == phase = "scan" /\ phase' = "done"

\* the step is a call of onKeyEvent
KeyStep == phase = "scan" /\ phase' = "scan" /\ last'.name = "onKeyEvent"

\* the step is a key-down transition of a given kind of key
KeyDownStep(layer) ==
  /\ KeyStep
  /\ keyToggledOn(last'.state)
  /\ isLayerKey(last'.key) = layer

\* elapsed time as the 16-bit timestamp arithmetic measures it
Elapsed16 == (ToUint16(millis_at_cycle_start) - start_time_) % TimestampModulus

\* elapsed time since the last key event on the full clock
ElapsedSinceEvent == millis_at_cycle_start - event_millis

(* ------------------------------- claims -------------------------------- *)

\* C1: a call of afterEachCycle made while timer_running_ is false activates
\* no effect and leaves timer_running_ false.  Stated for the calls made
\* after the first key event, where start_time_ holds a recorded timestamp.
C1_IdleTickActivatesNothing ==
  [][(TickStep /\ ~timer_running_ /\ event_millis # NoEvent) =>
       (activated' = <<>> /\ ~timer_running_')]_vars

\* C2 (as stated): at the end of every cycle, timer_running_ holds exactly
\* when a non-layer key has toggled on and fewer than timeout ms have passed
\* since the timestamp of the last key event.
C2_RunningIffRecentKeyDown ==
  phase = "done" =>
    (timer_running_ <=>
       (keyDownSeen /\ event_millis # NoEvent /\ ElapsedSinceEvent < timeout))

\* C2 (amended): timer_running_ holds only if a non-layer key has toggled on,
\* and at the end of every cycle only if fewer than timeout ms, measured on
\* the 16-bit timestamp, have passed since the last key event.
C2_RunningOnlyIfRecentKeyDown ==
  timer_running_ =>
    /\ keyDownSeen
    /\ event_millis # NoEvent
    /\ start_time_ = ToUint16(event_millis)
    /\ (phase = "done" => Elapsed16 < timeout)

C2_Witness ==
  /\ phase = "done"
  /\ ~timer_running_
  /\ keyDownSeen
  /\ last.name = "afterEachCycle"
  /\ event_millis = millis_at_cycle_start

\* C3: a call of afterEachCycle made while timer_running_ is true and at
\* least timeout ms after the last key event clears timer_running_ and
\* activates the colormap effect and nothing else.
C3_TimeoutTick ==
  [][(TickStep /\ timer_running_ /\ ElapsedSinceEvent >= timeout) =>
       (~timer_running_' /\ activated' = <<"colormap">>)]_vars

C3_Witness ==
  /\ last.name = "afterEachCycle"
  /\ last.wasRunning
  /\ ElapsedSinceEvent = timeout
  /\ ~timer_running_
  /\ activated = <<"colormap">>

\* C4: a call of afterEachCycle made while timer_running_ is true and fewer
\* than timeout ms after the last key event activates no effect and leaves
\* timer_running_ true.
C4_NoEarlyTimeout ==
  [][(TickStep /\ timer_running_ /\ ElapsedSinceEvent < timeout) =>
       (timer_running_' /\ activated' = <<>>)]_vars

C4_Witness ==
  /\ last.name = "afterEachCycle"
  /\ last.wasRunning
  /\ ElapsedSinceEvent = timeout - 1
  /\ timer_running_
  /\ activated = <<>>

\* C5: a key-down of a non-layer key received while timer_running_ is false
\* sets timer_running_ and activates the stalker effect once and nothing
\* else.
C5_StartOnKeyDown ==
  [][(KeyDownStep(FALSE) /\ ~timer_running_) =>
       (timer_running_' /\ activated' = <<"stalker">>)]_vars

C5_Witness ==
  /\ last.name = "onKeyEvent"
  /\ ~last.wasRunning
  /\ keyToggledOn(last.state)
  /\ ~isLayerKey(last.key)
  /\ timer_running_
  /\ activated = <<"stalker">>
  /\ lastEffect = "stalker"

\* C6: every key-down of a layer key received while timer_running_ is true
\* activates the colormap effect and leaves timer_running_ true.
C6_LayerKeyDownWhileRunning ==
  [][(KeyDownStep(TRUE) /\ timer_running_) =>
       (timer_running_' /\ activated' = <<"colormap">>)]_vars

C6_Witness ==
  /\ last.name = "onKeyEvent"
  /\ last.wasRunning
  /\ keyToggledOn(last.state)
  /\ isLayerKey(last.key)
  /\ timer_running_
  /\ activated = <<"colormap">>

\* C7: every key event, whatever its state, its key and timer_running_, sets
\* start_time_ to the cycle-start time (in the timestamp's 16 bits), so that
\* the timeout counts from that event again.
C7_EveryKeyEventRestamps ==
  [][KeyStep =>
       /\ start_time_' = ToUint16(millis_at_cycle_start)
       /\ event_millis' = millis_at_cycle_start
       /\ ~hasTimeExpired(millis_at_cycle_start', start_time_', timeout)]_vars

C7_Witness ==
  /\ last.name = "onKeyEvent"
  /\ last.wasRunning
  /\ ~keyToggledOn(last.state)
  /\ last.oldStart # start_time_
  /\ millis_at_cycle_start >= TimestampModulus
  /\ start_time_ = ToUint16(millis_at_cycle_start)

\* C8: timer_running_ goes from true to false only in afterEachCycle, and
\* only when the timeout has expired since start_time_; no key event clears
\* it.
C8_StopOnlyOnExpiredTick ==
  [][(timer_running_ /\ ~timer_running_') =>
       (TickStep /\ hasTimeExpired(millis_at_cycle_start, start_time_, timeout))]_vars

C8_Witness ==
  /\ last.name = "afterEachCycle"
  /\ last.wasRunning
  /\ ~timer_running_
  /\ Elapsed16 > timeout

\* C9: timer_running_ goes from false to true only in onKeyEvent, and only
\* for a key-down of a non-layer key.
C9_StartOnlyOnPlainKeyDown ==
  [][(~timer_running_ /\ timer_running_') => KeyDownStep(FALSE)]_vars

C9_Witness ==
  /\ last.name = "onKeyEvent"
  /\ ~last.wasRunning
  /\ timer_running_
  /\ lastEffect = "stalker"
  /\ cycles > 1

\* C10: one call of onKeyEvent never activates both the colormap and the
\* stalker effect.
C10_OneEffectPerKeyEvent ==
  last.name = "onKeyEvent" =>
    /\ Len(activated) <= 1
    /\ ~({"colormap", "stalker"} \subseteq {activated[i] : i \in DOMAIN activated})

C10_Witness ==
  /\ last.name = "onKeyEvent"
  /\ keyToggledOn(last.state)
  /\ Len(activated) = 1

\* C11: both hooks accept every input in every state and return
\* EventHandlerResult::OK, never another status.
C11_HooksReturnOK ==
  /\ result \in EventHandlerResults \cup {"none"}
  /\ (last.name \in {"onKeyEvent", "afterEachCycle"} => result = "OK")
  /\ (phase = "scan" =>
        /\ ENABLED afterEachCycle
        /\ \A event \in KeyEvents : ENABLED onKeyEvent(event))

C11_Witness ==
  /\ last.name = "onKeyEvent"
  /\ last.state = "toggledOff"
  /\ last.wasRunning
  /\ result = "OK"
  /\ lastEffect = "colormap"

\* C12: a key event that is not a key-down, a layer key-down received while
\* timer_running_ is false, and a non-layer key-down received while
\* timer_running_ is true each activate no effect and leave timer_running_
\* (and the latest effect) as they were; only the timestamp is renewed.
C12_OtherKeyEventsOnlyRestamp ==
  [][(KeyStep /\ (\/ ~keyToggledOn(last'.state)
                  \/ (isLayerKey(last'.key) /\ ~timer_running_)
                  \/ (~isLayerKey(last'.key) /\ timer_running_))) =>
       /\ activated' = <<>>
       /\ timer_running_' = timer_running_
       /\ lastEffect' = lastEffect
       /\ stalkerPending' = stalkerPending
       /\ start_time_' = ToUint16(millis_at_cycle_start)]_vars

C12_Witness ==
  /\ last.name = "onKeyEvent"
  /\ keyToggledOn(last.state)
  /\ ~isLayerKey(last.key)
  /\ last.wasRunning
  /\ last.oldStart # start_time_
  /\ timer_running_
  /\ activated = <<>>

\* C13: from every state with timer_running_ true, if no further key event
\* arrives and the main loop keeps running with a tick at least every 2^16
\* ms, eventually timer_running_ is false and the colormap effect has been
\* activated.
C13_RunningTimerEventuallyStops ==
  (timer_running_ /\ last.name = "afterEachCycle")
    ~> (\/ (~timer_running_ /\ lastEffect = "colormap")
        \/ last.name = "onKeyEvent")

\* C14: the expiry test follows the true elapsed time: once a tick after
\* the last key event has found the timeout expired, every later tick before
\* the next key event finds it expired too, however long the delay.
C14_ExpiryStaysTrue ==
  [][(/\ TickStep
      /\ event_millis # NoEvent
      /\ last.name = "afterEachCycle"
      /\ activated = <<"colormap">>) =>
       (/\ activated' = <<"colormap">>
        /\ ElapsedSinceEvent >= timeout)]_vars

\* C15: whenever timer_running_ is false, the most recently activated
\* effect, if there is one, is the colormap effect; the stalker effect is the
\* most recent one only while timer_running_ is true.
C15_IdleMeansColormap ==
  /\ lastEffect \in Effects \cup {"none"}
  /\ (~timer_running_ => lastEffect \in {"none", "colormap"})
  /\ (lastEffect = "stalker" => timer_running_)

C15_Witness ==
  /\ ~timer_running_
  /\ keyDownSeen
  /\ lastEffect = "colormap"
  /\ last.name = "afterEachCycle"
  /\ last.wasRunning
  /\ activated = <<"colormap">>
  /\ phase = "done"

\* C16: the stalker effect is never activated twice within one period of
\* timer_running_: whenever a key event activates it, every earlier
\* activation of it has been followed by a tick that cleared timer_running_
\* and activated the colormap effect.
C16_StalkerOncePerActivePeriod ==
  [][(KeyStep /\ \E i \in DOMAIN activated' : activated'[i] = "stalker") =>
       (~stalkerPending /\ stalkerPending')]_vars

C16_Witness ==
  /\ last.name = "onKeyEvent"
  /\ last.keyDownBefore
  /\ ~last.wasRunning
  /\ activated = <<"stalker">>
  /\ stalkerPending
  /\ timer_running_

=============================================================================
